---- MODULE Spec2Model ----
(***************************************************************************)
(* Donation Roulette: the Root View (Home), its two selectors              *)
(* (CharityPicker, DonationSpinner), the confirmation dialog               *)
(* (DonationModal), React's update queue and the browser's timer queue.    *)
(*                                                                         *)
(* Time is kept as the remaining delay (ms) of every pending timer.  The   *)
(* state variables of the components hold what the last commit rendered.   *)
(* A setState made in a click handler is rendered, and the effects of that *)
(* commit are flushed, in the step of the click.  A setState made in a     *)
(* timer callback, after an await or in an effect is queued: a later step  *)
(* renders the queue, and a step after that flushes the effects of that    *)
(* commit.  Due timers and clicks can run in between, and so can time: the *)
(* main thread can be busy while a timer is due or React has work left.    *)
(***************************************************************************)
EXTENDS Integers, Sequences, FiniteSets, TLC

\* ------------------------------------------------------------ static tables

\* lib/charities: the fixed amounts (as printed by toFixed(2)).
DONATION_AMOUNTS == <<"0.05", "0.10", "0.25", "0.50", "1.00", "2.00", "5.00", "10.00">>

\* lib/charities: the ids of the fixed charities, in table order.
CHARITIES == <<"water-org", "save-children", "doctors-borders", "wwf", "unicef", "acumen">>

\* lib/wallets: the ids of the wallet table, in table order.
wallets == <<"metamask", "coinbase", "walletconnect", "trustwallet">>

\* The JavaScript null of the nullable string/number fields.
Null == "null"

\* JavaScript truthiness of a nullable string.
Truthy(str) == str # Null /\ str # ""

\* Charity.walletAddress of a charity id.
walletAddress(c) ==
  CASE c = "water-org"       -> "0x1234567890123456789012345678901234567890"
    [] c = "save-children"   -> "0x2345678901234567890123456789012345678901"
    [] c = "doctors-borders" -> "0x3456789012345678901234567890123456789012"
    [] c = "wwf"             -> "0x4567890123456789012345678901234567890123"
    [] c = "unicef"          -> "0x5678901234567890123456789012345678901234"
    [] OTHER                 -> "0x6789012345678901234567890123456789012345"

\* ------------------------------------------------------------ delays (ms)

HomeSpinMs == 4000
PickerIntervalMs == 100
PickerRevealMs == 4000
SpinnerIntervalMs == 100
SpinnerRevealMs == 3900
SendDelayMs == 1500
ConnectDelayMs == 1000

\* Time advances in steps of the shortest timer period; every delay of the
\* program is a multiple of it.
Quantum == PickerIntervalMs

\* At most MaxLag quanta pass, in a behaviour, while a timer is due or React
\* has work left.
MaxLag == 1

\* The user starts at most MaxSpins spins.
MaxSpins == 2

\* A caller of the wallet helper on its own makes at most MaxCalls calls.
MaxCalls == 2

\* ------------------------------------------------------------ sampled inputs

\* Math.random() is sampled at k / RandomSamples, k in 0 .. RandomSamples - 1.
RandomSamples == 2
\* Date.now() % 1000 is sampled every NowStep ms.
NowStep == 1000

RandomDraws == 0 .. (RandomSamples - 1)
NowSamples == { k * NowStep : k \in 0 .. ((1000 - 1) \div NowStep) }

\* Math.floor(Math.random() * n) for the sample k.
RandomIndex(k, n) == (k * n) \div RandomSamples


segmentCount == Len(DONATION_AMOUNTS)
segmentAngle == 360 \div segmentCount

\* ------------------------------------------------------------ state

VARIABLES
  isSpinning,        \* Home
  selectedAmount,    \* Home
  selectedCharity,   \* Home
  showModal,         \* Home
  txHash,            \* Home
  picker,            \* CharityPicker: currentIndex, revealingCharity, finalCharity
  spinner,           \* DonationSpinner: selectedAmount, revealingAmount
  modal,             \* DonationModal instance (mounted or not) and its state
  queued,            \* React: the setState calls not rendered yet, per state field
  effects,           \* React: the effects of the last commit not flushed yet
  timers,            \* pending timers in creation order: [kind, rem, val]
  hasEthereum,       \* 'ethereum' in window
  homeMounted,       \* Home (and with it its children) is in the page
  lag,               \* quanta that have passed while the thread had work left
  dial,              \* CharityDial on its own, under a parent that sets isSpinning
  send,              \* the wallet helper on its own: the last line logged, the calls made
  amountReports,     \* history: onSpinComplete calls in the current spin (2 = more)
  charityReports,    \* history: onCharitySelected calls in the current spin (2 = more)
  drawnAtStart,      \* history: the charity CharityPicker drew when the spin started
  dismissed,         \* history: the dialog was dismissed since the last amount report
  offEarly,          \* history: the reveal timeouts cut short by isSpinning rendered false
  spins,             \* history: the spins started so far
  lastTrigger        \* history: what the last step did (spin trigger, settled submission)

homeVars == <<isSpinning, selectedAmount, selectedCharity, showModal, txHash>>
childVars == <<picker, spinner, modal>>
reactVars == <<queued, effects>>
historyVars ==
  <<amountReports, charityReports, drawnAtStart, dismissed, offEarly, spins, lastTrigger>>
\* What no handler of the program writes.
envVars == <<hasEthereum, homeMounted, lag, dial, send>>
vars == <<homeVars, childVars, reactVars, timers, envVars, historyVars>>

\* Home's state as one value (what a render of Home reads).
HomeState ==
  [isSpinning |-> isSpinning, selectedAmount |-> selectedAmount,
   selectedCharity |-> selectedCharity, showModal |-> showModal, txHash |-> txHash]

\* ------------------------------------------------------------ timers

Timer(k, ms, v) == [kind |-> k, rem |-> ms, val |-> v]

\* clearInterval / clearTimeout of the handles of the given kinds.
Cancel(tq, kinds) == SelectSeq(tq, LAMBDA t : t.kind \notin kinds)

\* Mutant: a cleanup that clears the interval and forgets the reveal timeout.
PickerKinds_IntervalOnly == {"pickerInterval"}

\* The timers a selector's effect cleanup clears.
PickerKinds == {"pickerInterval", "pickerReveal"}
SpinnerKinds == {"spinnerInterval", "spinnerReveal"}

\* The queue without its i-th timer.
RemoveAt(tq, i) == SubSeq(tq, 1, i - 1) \o SubSeq(tq, i + 1, Len(tq))

\* The queue with its i-th timer, an interval, armed for its next occurrence
\* once a callback has run (rem <= 0 is how late it ran): the next beat of
\* its period that is still ahead, the beats missed meanwhile are skipped.
\* The interval keeps its place in the queue.
Rearmed(tq, i, ms) == [tq EXCEPT ![i].rem = ms - ((0 - @) % ms)]

\* The timers whose delay has elapsed; the browser runs the one that was due
\* first, and of those due at the same time the oldest.
Due(tq) == { i \in 1 .. Len(tq) : tq[i].rem <= 0 }
FirstDue(tq) ==
  CHOOSE i \in Due(tq) :
    \A j \in Due(tq) : tq[i].rem < tq[j].rem \/ (tq[i].rem = tq[j].rem /\ i <= j)

\* A dialog instance that goes away leaves its pending submission running:
\* the promise still resolves, but its setState calls reach no instance.
Orphan(tq) ==
  [i \in 1 .. Len(tq) |->
     IF tq[i].kind = "send" THEN [tq[i] EXCEPT !.val = "unmounted"] ELSE tq[i]]

\* ------------------------------------------------------------ sendDonation

\* The number of hexadecimal digits sendDonation generates.
HashDigits == 64

HexDigits == <<"0", "1", "2", "3", "4", "5", "6", "7", "8", "9", "a", "b", "c", "d", "e", "f">>

\* The Math.random() samples one call consumes, digit by digit: the samples
\* alternate between two draws.
RandomSources == [odd : RandomDraws, even : RandomDraws]

\* Math.floor(Math.random() * 16).toString(16) for the i-th digit.
HexDigitAt(source, i) ==
  HexDigits[RandomIndex(IF i % 2 = 1 THEN source.odd ELSE source.even, 16) + 1]

\* Array.prototype.join(''): the strings of an array, concatenated.
RECURSIVE Join(_)
Join(array) == IF array = <<>> THEN "" ELSE Head(array) \o Join(Tail(array))

\* Mutant: an identifier of half the length.
generateTxHash_Short(source) ==
  "0x" \o Join([i \in 1 .. (HashDigits \div 2) |-> HexDigitAt(source, i)])

\* '0x' + Array.from({ length: 64 }, ...).join('')
generateTxHash(source) ==
  "0x" \o Join([i \in 1 .. HashDigits |-> HexDigitAt(source, i)])

\* The identifiers the submissions of the page are sampled with: the first
\* HashDraws of those in which every Math.random() returns the same sample.
HashDraws == 1
HashSamples == { generateTxHash([odd |-> k, even |-> k]) : k \in 0 .. (HashDraws - 1) }

\* What the promise of sendDonation(walletId, recipientAddress, amount)
\* resolves with.  The function reads its arguments in the console.log of the
\* call and nowhere after the awaited delay.
sendDonationResult(source) ==
  [success |-> TRUE, txHash |-> generateTxHash(source), error |-> Null, thrown |-> Null]

\* No call of the stand-alone wallet helper yet: nothing logged, no promise.
SendIdle == [logged |-> Null, calls |-> <<>>]

\* The arguments a caller can pass to sendDonation: any wallet, any charity's
\* address, any amount.
SendCalls ==
  { [fn |-> "sendDonation", walletId |-> wallets[w],
     recipientAddress |-> walletAddress(CHARITIES[c]), amount |-> DONATION_AMOUNTS[a]] :
      w \in 1 .. Len(wallets), c \in 1 .. Len(CHARITIES), a \in 1 .. Len(DONATION_AMOUNTS) }

\* The arguments a caller can pass to connectWallet: any wallet.
ConnectCalls ==
  { [fn |-> "connectWallet", walletId |-> wallets[w],
     recipientAddress |-> Null, amount |-> Null] : w \in 1 .. Len(wallets) }

\* The promise a call returns, pending until its delay has passed.
PendingCall(fn) == [fn |-> fn, phase |-> "pending", result |-> Null]

\* The oldest call of fn that is still pending.  The calls of one function
\* wait the same delay, so their timers fire in the order of the calls.
OldestPending(calls, fn) ==
  CHOOSE i \in 1 .. Len(calls) :
    /\ calls[i].fn = fn /\ calls[i].phase = "pending"
    /\ \A j \in 1 .. (i - 1) : ~(calls[j].fn = fn /\ calls[j].phase = "pending")

\* The promise of the oldest pending call of fn resolves with result.
Settle(calls, fn, result) ==
  [calls EXCEPT ![OldestPending(calls, fn)] = [@ EXCEPT !.phase = "settled", !.result = result]]

\* ------------------------------------------------------------ CharityDial

DialSelectMs == 400
DialIntervalMs == 100

\* CharityDial as its last commit rendered it (the isSpinning prop, currentIndex,
\* transitioning); what React holds for it: the setCurrentIndex updaters not
\* rendered yet (steps), a setTransitioning(false) not rendered yet (settling),
\* whether the effect of the last commit is left to run (stale), whether the
\* last effect run returned a cleanup (armed) and the currentIndex that run
\* captured; and what the parent has seen: the onCharitySelected calls since
\* the prop last went up (2 = more) and the charity of the last call.
DialInit ==
  [isSpinning |-> FALSE, currentIndex |-> 0, transitioning |-> FALSE,
   steps |-> 0, settling |-> FALSE, stale |-> FALSE, armed |-> FALSE, captured |-> 0,
   reports |-> 0, lastReported |-> Null]

\* ------------------------------------------------------------ walletHelper

isWalletAvailable(walletId) ==
  IF walletId = "metamask" THEN hasEthereum ELSE TRUE

\* wallets.filter(wallet => isWalletAvailable(wallet.id))
checkWallets == SelectSeq(wallets, isWalletAvailable)

\* ------------------------------------------------------------ DonationSpinner

\* Mutant: the landed index taken from the raw rotation, without the two
\* modulo reductions; an index past the table reads undefined.
LandedSegment_Unnormalized(kRotations, kSegment) ==
  LET spinDegrees == 5 * 360 + (kRotations * 5 * 360) \div RandomSamples
      randomSegment == RandomIndex(kSegment, segmentCount)
      randomAngle == randomSegment * segmentAngle
      newRotation == 0 + spinDegrees + randomAngle
      landedSegmentIndex == newRotation \div segmentAngle
  IN IF landedSegmentIndex < segmentCount
     THEN DONATION_AMOUNTS[landedSegmentIndex + 1] ELSE "undefined"

\* The index the effect reads segments with, from its rotation math:
\* lastSpinRef is reset to 0 first, so newRotation is the drawn rotation alone.
LandedSegmentIndex(kRotations, kSegment) ==
  LET spinDegrees == 5 * 360 + (kRotations * 5 * 360) \div RandomSamples
      randomSegment == RandomIndex(kSegment, segmentCount)
      randomAngle == randomSegment * segmentAngle
      newRotation == 0 + spinDegrees + randomAngle
      normalizedRotation == newRotation % 360
      landedSegmentIndex == normalizedRotation \div segmentAngle
  IN landedSegmentIndex % segmentCount

\* The segment the wheel lands on.
LandedSegment(kRotations, kSegment) ==
  DONATION_AMOUNTS[LandedSegmentIndex(kRotations, kSegment) + 1]

\* The index the interval callback reads segments with at wall-clock time
\* nowMs (mod 1000).
DisplayedSegmentIndex(nowMs) ==
  LET currentRotation == (nowMs * 360) \div 1000
  IN (currentRotation \div segmentAngle) % segmentCount

\* The amount the interval callback displays.
DisplayedSegment(nowMs) == DONATION_AMOUNTS[DisplayedSegmentIndex(nowMs) + 1]

SpinnerInit == [selectedAmount |-> Null, revealingAmount |-> FALSE]

\* The setState calls of the effect body when isSpinning is true, added to
\* the queue q.
SpinnerEffect(q) == [q EXCEPT !.revealingAmount = <<FALSE>>, !.spinnerAmount = <<Null>>]

\* ------------------------------------------------------------ CharityPicker

PickerInit == [currentIndex |-> 0, revealingCharity |-> FALSE, finalCharity |-> Null]

\* CHARITIES[Math.floor(Math.random() * CHARITIES.length)] for the sample k.
DrawnCharity(k) == CHARITIES[RandomIndex(k, Len(CHARITIES)) + 1]

\* The setState calls of the effect body when isSpinning is true, added to
\* the queue q; c is the draw.
PickerEffect(q, c) == [q EXCEPT !.revealingCharity = <<FALSE>>, !.finalCharity = <<c>>]

\* Mutant: the updater of the interval callback without its modulo.
NextIndex_NoWrap(prev) == prev + 1

\* The updater of the interval callback: prev => (prev + 1) % CHARITIES.length
NextIndex(prev) == (prev + 1) % Len(CHARITIES)

\* n queued updaters applied to the index, oldest first.
RECURSIVE Advance(_, _)
Advance(index, n) == IF n = 0 THEN index ELSE Advance(NextIndex(index), n - 1)

\* What the centre of the spinner renders.
SpinnerDisplay ==
  IF spinner.selectedAmount # Null THEN spinner.selectedAmount
  ELSE IF isSpinning THEN "Spinning..."
  ELSE "Spin!"

\* What the picker renders.
PickerDisplay ==
  IF isSpinning THEN CHARITIES[picker.currentIndex + 1]
  ELSE IF picker.finalCharity # Null THEN picker.finalCharity
  ELSE CHARITIES[1]

\* ------------------------------------------------------------ DonationModal

ModalUnmounted ==
  [mounted |-> FALSE, modalCharity |-> Null, isProcessing |-> FALSE,
   error |-> Null, availableWallets |-> <<>>]

\* A new instance as its first render commits it: the initial values of its
\* useState calls.  availableWallets starts as the whole wallet table.
ModalMount(charity) ==
  [mounted |-> TRUE, modalCharity |-> charity, isProcessing |-> FALSE,
   error |-> Null, availableWallets |-> wallets]

\* The mount effect of the dialog: checkWallets() calls setAvailableWallets.
\* (setModalCharity(charity) of the other effect sets the value the state
\* already has.)
MountEffect(q) == [q EXCEPT !.availableWallets = <<checkWallets>>]

\* The effect on [charity] of a dialog that stays mounted: setModalCharity.
CharityEffect(q, charity) == [q EXCEPT !.modalCharity = <<charity>>]

\* Home's render condition of the dialog.
ModalRendered(h) == h.showModal /\ h.selectedAmount # Null /\ h.selectedCharity # Null

\* ------------------------------------------------------------ React

\* The update queue, per state field: <<>> when no setState is queued, <<v>>
\* when the last queued setState of the field is setState(v); for the picker's
\* currentIndex the number of queued updaters.
NoUpdates ==
  [isSpinning |-> <<>>, selectedAmount |-> <<>>, selectedCharity |-> <<>>,
   showModal |-> <<>>, txHash |-> <<>>,
   currentIndex |-> 0, revealingCharity |-> <<>>, finalCharity |-> <<>>,
   spinnerAmount |-> <<>>, revealingAmount |-> <<>>,
   modalCharity |-> <<>>, isProcessing |-> <<>>, error |-> <<>>,
   availableWallets |-> <<>>]

\* The value of a field after its queued update.
Updated(update, current) == IF update = <<>> THEN current ELSE update[1]

\* A queued update of a field that a later setState of a click replaces.
Replaced(update, later) == IF later = <<>> THEN update ELSE <<>>

\* The queue once a click has rendered its own updates u: an earlier update
\* of a field the click has set is applied before the click's, which wins.
Rebased(q, u) ==
  [q EXCEPT !.isSpinning = Replaced(@, u.isSpinning),
            !.selectedAmount = Replaced(@, u.selectedAmount),
            !.selectedCharity = Replaced(@, u.selectedCharity),
            !.showModal = Replaced(@, u.showModal),
            !.txHash = Replaced(@, u.txHash),
            !.isProcessing = Replaced(@, u.isProcessing),
            !.error = Replaced(@, u.error)]

\* The queue without the updates of a dialog instance that is gone.
WithoutModal(q) ==
  [q EXCEPT !.modalCharity = <<>>, !.isProcessing = <<>>, !.error = <<>>,
            !.availableWallets = <<>>]

\* The program as one value: what is rendered, React's queues, the timers.
World ==
  [home |-> HomeState, picker |-> picker, spinner |-> spinner, modal |-> modal,
   queued |-> queued, effects |-> effects, timers |-> timers]

\* The step leaves the program as world.
Becomes(world) ==
  \E w \in {world} :
    /\ isSpinning' = w.home.isSpinning
    /\ selectedAmount' = w.home.selectedAmount
    /\ selectedCharity' = w.home.selectedCharity
    /\ showModal' = w.home.showModal
    /\ txHash' = w.home.txHash
    /\ picker' = w.picker
    /\ spinner' = w.spinner
    /\ modal' = w.modal
    /\ queued' = w.queued
    /\ effects' = w.effects
    /\ timers' = w.timers

\* A draw of the random inputs one run of the two selector effects consumes.
Draws == [charity : RandomDraws, rotation : RandomDraws, segment : RandomDraws]
NoDraw == [charity |-> 0, rotation |-> 0, segment |-> 0]

\* Home's state with the updates u rendered.
HomeWith(h, u) ==
  [isSpinning |-> Updated(u.isSpinning, h.isSpinning),
   selectedAmount |-> Updated(u.selectedAmount, h.selectedAmount),
   selectedCharity |-> Updated(u.selectedCharity, h.selectedCharity),
   showModal |-> Updated(u.showModal, h.showModal),
   txHash |-> Updated(u.txHash, h.txHash)]

PickerWith(pk, u) ==
  [currentIndex |-> Advance(pk.currentIndex, u.currentIndex),
   revealingCharity |-> Updated(u.revealingCharity, pk.revealingCharity),
   finalCharity |-> Updated(u.finalCharity, pk.finalCharity)]

SpinnerWith(sp, u) ==
  [selectedAmount |-> Updated(u.spinnerAmount, sp.selectedAmount),
   revealingAmount |-> Updated(u.revealingAmount, sp.revealingAmount)]

ModalWith(md, u) ==
  IF ~md.mounted THEN md
  ELSE [mounted |-> TRUE,
        modalCharity |-> Updated(u.modalCharity, md.modalCharity),
        isProcessing |-> Updated(u.isProcessing, md.isProcessing),
        error |-> Updated(u.error, md.error),
        availableWallets |-> Updated(u.availableWallets, md.availableWallets)]

\* Home re-renders when an update changed its state.
Rerenders(w, u) == HomeWith(w.home, u) # w.home

\* The effects a commit leaves to flush: of both selectors when Home
\* re-rendered (the callbacks Home passes are new functions on every render),
\* of a dialog instance that has just mounted, of a dialog whose charity prop
\* changed.
EffectsOf(w, u) ==
  LET h == HomeWith(w.home, u)
  IN (IF Rerenders(w, u) THEN {"selectors"} ELSE {})
     \cup (IF ModalRendered(h) /\ ~w.modal.mounted THEN {"mount"} ELSE {})
     \cup (IF ModalRendered(h) /\ w.modal.mounted /\ h.selectedCharity # w.home.selectedCharity
           THEN {"charity"} ELSE {})

\* A render of the updates u and its commit: the components' state is
\* updated, the dialog is mounted or unmounted as Home's render condition
\* says, the effects of the commit are left to flush.
Commit(w, u) ==
  LET h == HomeWith(w.home, u)
      md == IF ~ModalRendered(h) THEN ModalUnmounted
            ELSE IF w.modal.mounted THEN ModalWith(w.modal, u)
            ELSE ModalMount(h.selectedCharity)
      gone == w.modal.mounted /\ ~md.mounted
  IN [home |-> h,
      picker |-> PickerWith(w.picker, u),
      spinner |-> SpinnerWith(w.spinner, u),
      modal |-> md,
      queued |-> IF gone THEN WithoutModal(w.queued) ELSE w.queued,
      effects |-> w.effects \cup EffectsOf(w, u),
      timers |-> IF gone THEN Orphan(w.timers) ELSE w.timers]

\* The selector effects run their body when isSpinning is true.
EffectsSpin(w) == "selectors" \in w.effects /\ w.home.isSpinning
\* The draws a flush of the effects ranges over.
DrawsFor(w) == IF EffectsSpin(w) THEN Draws ELSE {NoDraw}

\* The pending effects flushed: the selectors' cleanups clear their timers;
\* when isSpinning is true their bodies queue their setState calls, arm the
\* intervals and the reveal timeouts and consume the draw d; the dialog's
\* effects queue their setState calls.
PassiveEffects(w, d) ==
  LET tq == IF "selectors" \in w.effects
            THEN Cancel(w.timers, PickerKinds \cup SpinnerKinds) ELSE w.timers
      q1 == IF "mount" \in w.effects THEN MountEffect(w.queued) ELSE w.queued
      q2 == IF "charity" \in w.effects THEN CharityEffect(q1, w.home.selectedCharity) ELSE q1
  IN IF EffectsSpin(w)
     THEN [w EXCEPT
            !.effects = {},
            !.queued = SpinnerEffect(PickerEffect(q2, DrawnCharity(d.charity))),
            !.timers = tq \o
               << Timer("pickerInterval", PickerIntervalMs, Null),
                  Timer("pickerReveal", PickerRevealMs, DrawnCharity(d.charity)),
                  Timer("spinnerInterval", SpinnerIntervalMs, Null),
                  Timer("spinnerReveal", SpinnerRevealMs,
                        LandedSegment(d.rotation, d.segment)) >>]
     ELSE [w EXCEPT !.effects = {}, !.queued = q2, !.timers = tq]

\* A click: the handler has made the setState calls u and left the timers
\* tq.  React flushes the effects still pending, renders u on what is
\* rendered (the queue stays queued), commits, and flushes the effects of
\* that commit, all in the step of the click.  A handler that has set
\* nothing schedules no render.
Discrete(u, tq, d) ==
  IF u = NoUpdates THEN [World EXCEPT !.timers = tq]
  ELSE CHOOSE w3 \in
         { PassiveEffects(w2, d) :
             w2 \in { Commit([w1 EXCEPT !.queued = Rebased(@, u)], u) :
                        w1 \in { PassiveEffects([World EXCEPT !.timers = tq], d) } } } : TRUE

\* The effects a click flushes run the selectors' bodies.
DiscreteSpins(u) ==
  /\ u # NoUpdates
  /\ \/ EffectsSpin(World)
     \/ (Rerenders(World, u) /\ HomeWith(HomeState, u).isSpinning)
\* The draws a click ranges over.
DrawsOf(u) == IF DiscreteSpins(u) THEN Draws ELSE {NoDraw}

\* A timer callback or the continuation of an await: its setState calls are
\* queued (q is the queue they leave), its timers are as it leaves them.
Deferred(q, tq) ==
  /\ queued' = q
  /\ timers' = tq
  /\ UNCHANGED <<homeVars, childVars, effects>>

\* ------------------------------------------------------------ Home handlers
\* A handler is the setState calls it makes, added to the updates q.

\* Mutant: handleSpinComplete without setSelectedAmount.
handleSpinComplete_OnlyShows(q, amount) == [q EXCEPT !.showModal = <<TRUE>>]

handleSpinComplete(q, amount) ==
  [q EXCEPT !.selectedAmount = <<amount>>, !.showModal = <<TRUE>>]

handleCharitySelected(q, charity) == [q EXCEPT !.selectedCharity = <<charity>>]

\* Mutant: handleStartSpin without its "already spinning" return.
handleStartSpin_NoGuard(q) ==
  [q EXCEPT !.isSpinning = <<TRUE>>, !.selectedAmount = <<Null>>,
            !.txHash = <<Null>>, !.showModal = <<FALSE>>]

\* handleStartSpin: nothing is set when the render it closes over was spinning.
handleStartSpin(q) ==
  IF isSpinning THEN q
  ELSE [q EXCEPT !.isSpinning = <<TRUE>>, !.selectedAmount = <<Null>>,
                 !.txHash = <<Null>>, !.showModal = <<FALSE>>]

\* Mutant: handleStartSpin without its setTimeout.
handleStartSpinTimers_NoTimeout == timers

\* The timers handleStartSpin leaves: the completion timeout, unless rejected.
handleStartSpinTimers ==
  IF isSpinning THEN timers
  ELSE Append(timers, Timer("home", HomeSpinMs, Null))

\* Mutant: handleDonationComplete dropping the identifier.
handleDonationComplete_Drops(q, hash) == q

handleDonationComplete(q, hash) == [q EXCEPT !.txHash = <<hash>>]

\* Mutant: handleCloseModal without setShowModal(false).
handleCloseModal_Noop(q) == q

handleCloseModal(q) == [q EXCEPT !.showModal = <<FALSE>>]

\* Mutant: the spin button disabled by isSpinning alone.
SpinButtonDisabled_SpinningOnly == isSpinning

\* disabled={isSpinning || showModal} of the spin button.
SpinButtonDisabled == isSpinning \/ showModal

\* ------------------------------------------------------------ history

Bump(n) == IF n >= 2 THEN 2 ELSE n + 1

\* The kinds of the reveal timeouts that are pending and not yet due.
RevealsAhead(tq) ==
  { tq[i].kind : i \in { j \in 1 .. Len(tq) :
                           tq[j].kind \in {"pickerReveal", "spinnerReveal"} /\ tq[j].rem > 0 } }

\* The kinds, of those given, that have a timer pending.
StillPending(kinds, tq) == { k \in kinds : \E i \in 1 .. Len(tq) : tq[i].kind = k }

\* The reveal timeouts cut short stay so while they are pending.
KeepEarly == offEarly' = StillPending(offEarly, timers')

\* The render that lowers isSpinning cuts short the reveal timeouts that are
\* pending and not yet due.
CutShort ==
  offEarly' = IF isSpinning /\ ~isSpinning' THEN RevealsAhead(timers')
              ELSE StillPending(offEarly, timers')

\* History of a step that reports nothing and starts nothing.
KeepSession ==
  /\ UNCHANGED <<amountReports, charityReports, drawnAtStart, dismissed, spins>>
  /\ KeepEarly

\* History of a handleStartSpin call: a session begins when the flag goes up.
StartSession(d) ==
  IF ~isSpinning /\ isSpinning'
  THEN /\ amountReports' = 0
       /\ charityReports' = 0
       /\ drawnAtStart' = DrawnCharity(d.charity)
       /\ dismissed' = FALSE
       /\ offEarly' = {}
       /\ spins' = spins + 1
  ELSE KeepSession

\* ------------------------------------------------------------ user: spin

\* One call of handleStartSpin, from a click.
StartSpin ==
  \E d \in DrawsOf(handleStartSpin(NoUpdates)) :
    /\ Becomes(Discrete(handleStartSpin(NoUpdates), handleStartSpinTimers, d))
    /\ lastTrigger' = IF isSpinning THEN "spinning" ELSE "accepted"
    /\ StartSession(d)
    /\ UNCHANGED envVars

\* A click on the spin button; the browser delivers none to a disabled button.
ClickSpinButton == ~SpinButtonDisabled /\ spins < MaxSpins /\ StartSpin

\* handleStartSpin reached while a spin is in progress (a trigger that does
\* not pass through the button's disabled attribute).
RetriggerSpin == isSpinning /\ StartSpin

\* ------------------------------------------------------------ React's tasks

\* React renders the queued updates and commits.
Render ==
  /\ homeMounted
  /\ queued # NoUpdates
  /\ effects = {}
  /\ Becomes(Commit([World EXCEPT !.queued = NoUpdates], queued))
  /\ lastTrigger' = "render"
  /\ UNCHANGED <<amountReports, charityReports, drawnAtStart, dismissed, spins>>
  /\ CutShort
  /\ UNCHANGED envVars

\* React flushes the effects of the last commit.
FlushEffects ==
  /\ homeMounted
  /\ effects # {}
  /\ \E d \in DrawsFor(World) : Becomes(PassiveEffects(World, d))
  /\ lastTrigger' = "effects"
  /\ KeepSession
  /\ UNCHANGED envVars

\* ------------------------------------------------------------ timers firing

\* Home's completion timeout: setIsSpinning(false).
HomeTimeout(rest) ==
  /\ Deferred([queued EXCEPT !.isSpinning = <<FALSE>>], rest)
  /\ KeepSession

\* CharityPicker's interval callback: setCurrentIndex with its updater; tq
\* is the queue with the interval armed for its next occurrence.
PickerInterval(tq) ==
  /\ Deferred([queued EXCEPT !.currentIndex = @ + 1], tq)
  /\ KeepSession

\* CharityPicker's reveal callback: setRevealingCharity(true), onCharitySelected.
PickerReveal(rest, charity) ==
  /\ Deferred(handleCharitySelected([queued EXCEPT !.revealingCharity = <<TRUE>>], charity),
              rest)
  /\ charityReports' = Bump(charityReports)
  /\ UNCHANGED <<amountReports, drawnAtStart, dismissed, spins>>
  /\ KeepEarly

\* DonationSpinner's interval callback, at wall-clock time nowMs; tq is the
\* queue with the interval armed for its next occurrence.
SpinnerInterval(tq) ==
  /\ \E nowMs \in NowSamples :
       Deferred([queued EXCEPT !.spinnerAmount = <<DisplayedSegment(nowMs)>>], tq)
  /\ KeepSession

\* DonationSpinner's reveal callback: stop the interval, show the landed
\* segment, onSpinComplete.
SpinnerReveal(rest, selectedSegment) ==
  /\ Deferred(handleSpinComplete([queued EXCEPT !.spinnerAmount = <<selectedSegment>>,
                                                !.revealingAmount = <<TRUE>>],
                                 selectedSegment),
              Cancel(rest, {"spinnerInterval"}))
  /\ amountReports' = Bump(amountReports)
  /\ dismissed' = FALSE
  /\ UNCHANGED <<charityReports, drawnAtStart, spins>>
  /\ KeepEarly

\* How a sendDonation call settles: thrown is the message of the Error it
\* rejects with ("nonError" for a rejection with something else), or Null when
\* it resolves with the {success, txHash, error} object.
Outcome(success, hash, error, thrown) ==
  [success |-> success, txHash |-> hash, error |-> error, thrown |-> thrown]

\* What sendDonation settles with: always a success with a fresh identifier.
sendDonation == { Outcome(TRUE, hash, Null, Null) : hash \in HashSamples }

\* A collaborator that can also fail, in every way handleDonateWithWallet
\* tells apart: reject with an Error (with and without a message), reject
\* with something else, resolve with success = false (with and without a
\* message), resolve with success = true and no or an empty hash.
FailingSendDonation ==
  { Outcome(TRUE, generateTxHash([odd |-> 0, even |-> 0]), Null, Null),
    Outcome(FALSE, Null, "Insufficient funds", Null),
    Outcome(FALSE, Null, Null, Null),
    Outcome(TRUE, Null, Null, Null),
    Outcome(TRUE, "", "Rejected by wallet", Null),
    Outcome(FALSE, Null, Null, "User rejected the request"),
    Outcome(FALSE, Null, Null, ""),
    Outcome(FALSE, Null, Null, "nonError") }

\* Mutant: the success test without its txHash operand.
Succeeded_IgnoresHash(result) == result.thrown = Null /\ result.success

\* result.success && result.txHash of a call that resolved.
Succeeded(result) == result.thrown = Null /\ result.success /\ Truthy(result.txHash)

\* The message the catch block stores: of the Error thrown in the try block
\* or by the collaborator, or the fallback for a rejection with a non-Error.
ErrorMessage(result) ==
  IF result.thrown = "nonError" THEN "Transaction failed. Please try again."
  ELSE IF result.thrown # Null THEN result.thrown
  ELSE IF Truthy(result.error) THEN result.error
  ELSE "Transaction failed"

\* The rest of handleDonateWithWallet once sendDonation has settled with
\* result; instance says whether the dialog that awaited it is still there
\* (the setState calls of an instance that is gone reach nothing).
DonateResolved(rest, instance, result) ==
  LET q1 == IF Succeeded(result) THEN handleDonationComplete(queued, result.txHash)
            ELSE queued
      q2 == IF instance # "mounted" THEN q1
            ELSE IF Succeeded(result) THEN [q1 EXCEPT !.isProcessing = <<FALSE>>]
            ELSE [q1 EXCEPT !.error = <<ErrorMessage(result)>>, !.isProcessing = <<FALSE>>]
  IN /\ Deferred(q2, rest)
     /\ KeepSession

\* How the step settled a submission of the dialog that is still open.
Settled(t, result) ==
  IF t.kind = "send" /\ t.val = "mounted"
  THEN (IF Succeeded(result) THEN "resolved" ELSE "failed")
  ELSE "none"

\* The browser runs the oldest timer whose delay has elapsed; results is what
\* the submission collaborator can settle with.
TimerFiresWith(results) ==
  /\ homeMounted
  /\ Due(timers) # {}
  /\ LET i == FirstDue(timers)
         t == timers[i]
         rest == RemoveAt(timers, i)
     IN \E result \in (IF t.kind = "send" THEN results ELSE {Outcome(FALSE, Null, Null, Null)}) :
          /\ CASE t.kind = "home" -> HomeTimeout(rest)
                [] t.kind = "pickerInterval" ->
                     PickerInterval(Rearmed(timers, i, PickerIntervalMs))
                [] t.kind = "pickerReveal" -> PickerReveal(rest, t.val)
                [] t.kind = "spinnerInterval" ->
                     SpinnerInterval(Rearmed(timers, i, SpinnerIntervalMs))
                [] t.kind = "spinnerReveal" -> SpinnerReveal(rest, t.val)
                [] OTHER -> DonateResolved(rest, t.val, result)
          /\ lastTrigger' = Settled(t, result)
  /\ UNCHANGED envVars

\* The program with its own sendDonation.
TimerFires == TimerFiresWith(sendDonation)

\* The main thread has nothing to run: no timer is due, React has nothing
\* queued and no effects to flush.
Idle == Due(timers) = {} /\ queued = NoUpdates /\ effects = {}

\* Time passes: every pending delay shrinks by one quantum.  It passes while
\* the thread is idle, and also (the thread is busy, or React has yielded)
\* while a timer is due or React has work left; a due timer is then late.
\* Late quanta are counted.
Tick ==
  /\ timers # <<>>
  /\ Idle \/ lag < MaxLag
  /\ lag' = IF Idle THEN lag ELSE lag + 1
  /\ timers' = [i \in 1 .. Len(timers) |-> [timers[i] EXCEPT !.rem = @ - Quantum]]
  /\ lastTrigger' = "none"
  /\ UNCHANGED <<homeVars, childVars, reactVars, hasEthereum, homeMounted, dial, send>>
  /\ KeepSession

\* Time passes on a thread that keeps up: only once it is idle.
TickIdle == Idle /\ Tick

\* ------------------------------------------------------------ user: dialog

InSeq(x, seq) == \E i \in 1 .. Len(seq) : seq[i] = x

\* Mutant: the wallet buttons rendered while a submission is processing.
WalletsOffered_WhileProcessing == modal.mounted /\ txHash = Null /\ ~Truthy(modal.error)

\* The dialog shows its wallet buttons: not the completed view (txHash), not
\* the processing view, not the error view.
WalletsOffered == modal.mounted /\ txHash = Null /\ ~modal.isProcessing /\ ~Truthy(modal.error)

\* setIsProcessing(true), setError(null) of handleDonateWithWallet.
Submitting == [NoUpdates EXCEPT !.isProcessing = <<TRUE>>, !.error = <<Null>>]

\* A click on a wallet button: handleDonateWithWallet up to its await.
ClickWallet ==
  /\ WalletsOffered
  /\ \E w \in { wallets[i] : i \in 1 .. Len(wallets) } :
       /\ InSeq(w, modal.availableWallets)
       /\ \E d \in DrawsOf(Submitting) :
            Becomes(Discrete(Submitting,
                             Append(timers, Timer("send", SendDelayMs, "mounted")), d))
       /\ lastTrigger' = "none"
  /\ KeepSession
  /\ UNCHANGED envVars

\* onClose of the dialog.
CloseModal ==
  /\ \E d \in DrawsOf(handleCloseModal(NoUpdates)) :
       Becomes(Discrete(handleCloseModal(NoUpdates), timers, d))
  /\ dismissed' = TRUE
  /\ lastTrigger' = "none"
  /\ KeepEarly
  /\ UNCHANGED <<amountReports, charityReports, drawnAtStart, spins, envVars>>

\* The Cancel button, under the wallet list.
ClickCancel == WalletsOffered /\ CloseModal

\* A click on the overlay, around the dialog in every view.
ClickOverlay == modal.mounted /\ CloseModal

\* The Close button of the completed view.
ClickClose == modal.mounted /\ txHash # Null /\ CloseModal

\* The dialog shows the error message and its Try Again control.
ErrorShown == modal.mounted /\ txHash = Null /\ ~modal.isProcessing /\ Truthy(modal.error)

\* setError(null) of the Try Again control.
Retrying == [NoUpdates EXCEPT !.error = <<Null>>]

\* A click on Try Again: setError(null).
ClickTryAgain ==
  /\ ErrorShown
  /\ \E d \in DrawsOf(Retrying) :
       Becomes(Discrete(Retrying, timers, d))
  /\ lastTrigger' = "retry"
  /\ KeepSession
  /\ UNCHANGED envVars

\* ------------------------------------------------------------ unmount

\* Home leaves the page.  React flushes the effects still pending and removes
\* Home and its children: their state and what was queued for them is gone, a
\* pending submission keeps running.  The selectors' effect cleanups, which
\* clear their timers, are passive effects of that commit and are left to
\* flush.  Home registers no cleanup for its completion timeout.  The Home
\* fields keep the last values the instance had.
Unmount ==
  /\ homeMounted
  /\ homeMounted' = FALSE
  /\ \E d \in DrawsFor(World) : timers' = Orphan(PassiveEffects(World, d).timers)
  /\ picker' = PickerInit
  /\ spinner' = SpinnerInit
  /\ modal' = ModalUnmounted
  /\ queued' = NoUpdates
  /\ effects' = {"unmount"}
  /\ lastTrigger' = "none"
  /\ KeepSession
  /\ UNCHANGED <<homeVars, hasEthereum, lag, dial, send>>

\* React flushes the effects of the removal: the cleanups of both selectors
\* clear their intervals and reveal timeouts.
UnmountCleanup ==
  /\ ~homeMounted
  /\ effects # {}
  /\ effects' = {}
  /\ timers' = Cancel(timers, PickerKinds \cup SpinnerKinds)
  /\ lastTrigger' = "effects"
  /\ KeepSession
  /\ UNCHANGED <<homeVars, childVars, queued, envVars>>

\* A timer that outlived Home fires and its callback runs.  The state setters
\* it calls belong to instances that no longer exist and change nothing; the
\* selectors' reveal callbacks still call the function Home passed them, an
\* interval stays armed, the spinner's reveal callback clears its interval.
DetachedTimerFires ==
  /\ ~homeMounted
  /\ Due(timers) # {}
  /\ LET i == FirstDue(timers)
         t == timers[i]
         rest == RemoveAt(timers, i)
     IN /\ timers' = CASE t.kind = "pickerInterval" -> Rearmed(timers, i, PickerIntervalMs)
                        [] t.kind = "spinnerInterval" -> Rearmed(timers, i, SpinnerIntervalMs)
                        [] t.kind = "spinnerReveal" -> Cancel(rest, {"spinnerInterval"})
                        [] OTHER -> rest
        /\ amountReports' = IF t.kind = "spinnerReveal" THEN Bump(amountReports)
                            ELSE amountReports
        /\ charityReports' = IF t.kind = "pickerReveal" THEN Bump(charityReports)
                             ELSE charityReports
        /\ dismissed' = (dismissed /\ t.kind # "spinnerReveal")
  /\ lastTrigger' = "detached"
  /\ KeepEarly
  /\ UNCHANGED <<drawnAtStart, spins, homeVars, childVars, reactVars, envVars>>

\* ------------------------------------------------------------ sendDonation alone

SendFrame ==
  UNCHANGED <<homeVars, childVars, reactVars, hasEthereum, homeMounted, lag, dial, historyVars>>

\* A call of sendDonation, up to the await of the delay: the line is logged
\* and the delay is armed.  Nothing in the function looks at earlier calls:
\* a call made while another is pending arms a timer of its own.
CallSendDonation ==
  /\ Len(send.calls) < MaxCalls
  /\ \E call \in SendCalls :
       send' = [logged |-> call, calls |-> Append(send.calls, PendingCall("sendDonation"))]
  /\ timers' = Append(timers, Timer("sendDelay", SendDelayMs, Null))
  /\ SendFrame

\* The delay has passed: the identifier is generated and the promise resolves.
SendDonationResolves ==
  /\ Due(timers) # {}
  /\ timers[FirstDue(timers)].kind = "sendDelay"
  /\ timers' = RemoveAt(timers, FirstDue(timers))
  /\ \E source \in RandomSources :
       send' = [send EXCEPT !.calls = Settle(@, "sendDonation", sendDonationResult(source))]
  /\ SendFrame

\* A call of connectWallet, up to the await of the delay.
connectWallet ==
  /\ Len(send.calls) < MaxCalls
  /\ \E call \in ConnectCalls :
       send' = [logged |-> call, calls |-> Append(send.calls, PendingCall("connectWallet"))]
  /\ timers' = Append(timers, Timer("connectDelay", ConnectDelayMs, Null))
  /\ SendFrame

\* The delay has passed: the promise of connectWallet resolves with true.
ConnectWalletResolves ==
  /\ Due(timers) # {}
  /\ timers[FirstDue(timers)].kind = "connectDelay"
  /\ timers' = RemoveAt(timers, FirstDue(timers))
  /\ send' = [send EXCEPT !.calls = Settle(@, "connectWallet", TRUE)]
  /\ SendFrame

\* ------------------------------------------------------------ CharityDial alone

\* The parent's onCharitySelected, called with CHARITIES[index].
DialReport(d, index) ==
  [d EXCEPT !.reports = Bump(@), !.lastReported = CHARITIES[index + 1]]

DialFrame ==
  UNCHANGED <<homeVars, childVars, reactVars, hasEthereum, homeMounted, lag, send, historyVars>>

\* The step leaves the dial and the timers as w has them.
DialBecomes(world) ==
  \E w \in {world} :
    /\ dial' = w.dial
    /\ timers' = w.timers

\* A render of the dial and its commit: up is the isSpinning prop; with batch
\* the queued updates are rendered too.  The effect is left to run when one of
\* its dependencies (isSpinning, currentIndex) has changed.
DialCommit(d, up, batch) ==
  LET index == IF batch THEN Advance(d.currentIndex, d.steps) ELSE d.currentIndex
  IN [d EXCEPT !.isSpinning = up,
               !.currentIndex = index,
               !.transitioning = IF batch /\ d.settling THEN FALSE ELSE @,
               !.steps = IF batch THEN 0 ELSE @,
               !.settling = IF batch THEN FALSE ELSE @,
               !.stale = @ \/ up # d.isSpinning \/ index # d.currentIndex]

\* The effect left to run, run: the cleanup the previous run returned clears
\* its interval and calls onCharitySelected with the index that run captured;
\* the body arms an interval and returns a cleanup when isSpinning is true.
DialEffects(d, tq) ==
  IF ~d.stale THEN [dial |-> d, timers |-> tq]
  ELSE LET cleaned == IF d.armed THEN DialReport(d, d.captured) ELSE d
           cleared == IF d.armed THEN Cancel(tq, {"dialInterval"}) ELSE tq
       IN IF d.isSpinning
          THEN [dial |-> [cleaned EXCEPT !.stale = FALSE, !.armed = TRUE,
                                         !.captured = d.currentIndex],
                timers |-> Append(cleared, Timer("dialInterval", DialIntervalMs, Null))]
          ELSE [dial |-> [cleaned EXCEPT !.stale = FALSE, !.armed = FALSE, !.captured = 0],
                timers |-> cleared]

\* The parent's count starts again when it raises the prop.
DialRaised(d, up) == IF up THEN [d EXCEPT !.reports = 0] ELSE d

\* The parent sets isSpinning to up.  Set in a click, React flushes the effect
\* still pending, renders the prop (the dial's own queue stays queued) and
\* flushes the effect of that commit, in the step.  Set in a timer callback or
\* after an await, the prop is rendered in a later task, with the dial's
\* queue, and the effect is left to run.
DialParentSets(up) ==
  \/ LET w1 == DialEffects(dial, timers)
     IN DialBecomes(DialEffects(DialCommit(DialRaised(w1.dial, up), up, FALSE), w1.timers))
  \/ /\ ~dial.stale
     /\ DialBecomes([dial |-> DialCommit(DialRaised(dial, up), up, TRUE), timers |-> timers])

\* The parent raises isSpinning.
DialStart == ~dial.isSpinning /\ DialParentSets(TRUE) /\ DialFrame

\* The parent lowers isSpinning.
DialStop == dial.isSpinning /\ DialParentSets(FALSE) /\ DialFrame

\* React renders the dial's queued updates and commits.
DialRender ==
  /\ dial.steps > 0 \/ dial.settling
  /\ ~dial.stale
  /\ DialBecomes([dial |-> DialCommit(dial, dial.isSpinning, TRUE), timers |-> timers])
  /\ DialFrame

\* React flushes the effect of the last commit.
DialFlush ==
  /\ dial.stale
  /\ DialBecomes(DialEffects(dial, timers))
  /\ DialFrame

\* The interval callback: setCurrentIndex(prev => (prev + 1) % length); tq is
\* the queue with the interval armed for its next occurrence.
DialInterval(tq) ==
  /\ dial' = [dial EXCEPT !.steps = @ + 1]
  /\ timers' = tq

\* The timeout of selectCharity: setTransitioning(false), onCharitySelected.
DialSelected(rest, index) ==
  /\ dial' = DialReport([dial EXCEPT !.settling = TRUE], index)
  /\ timers' = rest

\* The browser runs the due timer of the dial that was due first.
DialTimerFires ==
  /\ Due(timers) # {}
  /\ LET i == FirstDue(timers)
         t == timers[i]
         rest == RemoveAt(timers, i)
     IN CASE t.kind = "dialInterval" -> DialInterval(Rearmed(timers, i, DialIntervalMs))
          [] OTHER -> DialSelected(rest, t.val)
  /\ DialFrame

\* selectCharity(index): a click on an item of the list, read with the
\* isSpinning and transitioning of the last render.  React flushes the effect
\* still pending, renders setTransitioning(true) and setCurrentIndex(index)
\* (an updater queued earlier is applied before it, so index wins) and
\* flushes the effect of that commit.
selectCharity ==
  /\ ~(dial.isSpinning \/ dial.transitioning)
  /\ \E index \in 0 .. (Len(CHARITIES) - 1) :
       LET w1 == DialEffects(dial, timers)
           d2 == [w1.dial EXCEPT !.transitioning = TRUE,
                                 !.currentIndex = index,
                                 !.steps = 0,
                                 !.stale = @ \/ index # w1.dial.currentIndex]
       IN DialBecomes(DialEffects(d2, Append(w1.timers, Timer("dialSelect", DialSelectMs, index))))
  /\ DialFrame

\* The dial leaves the thread nothing to run.
DialIdle == Due(timers) = {} /\ dial.steps = 0 /\ ~dial.settling /\ ~dial.stale

\* Time passes for the dial, as it does for the page.
DialTick ==
  /\ timers # <<>>
  /\ DialIdle \/ lag < MaxLag
  /\ lag' = IF DialIdle THEN lag ELSE lag + 1
  /\ timers' = [i \in 1 .. Len(timers) |-> [timers[i] EXCEPT !.rem = @ - Quantum]]
  /\ UNCHANGED <<homeVars, childVars, reactVars, hasEthereum, homeMounted, dial, send, historyVars>>

\* ------------------------------------------------------------ specification

\* Home and its children after the first render.
InitHome ==
  /\ isSpinning = FALSE
  /\ selectedAmount = Null
  /\ selectedCharity = CHARITIES[1]
  /\ showModal = FALSE
  /\ txHash = Null
  /\ picker = PickerInit
  /\ spinner = SpinnerInit
  /\ modal = ModalUnmounted
  /\ queued = NoUpdates
  /\ effects = {}
  /\ timers = <<>>
  /\ hasEthereum \in BOOLEAN
  /\ homeMounted = TRUE
  /\ lag = 0
  /\ amountReports = 0
  /\ charityReports = 0
  /\ drawnAtStart = Null
  /\ dismissed = FALSE
  /\ offEarly = {}
  /\ spins = 0
  /\ lastTrigger = "none"

Init == InitHome /\ dial = DialInit /\ send = SendIdle

Next ==
  \/ ClickSpinButton
  \/ TimerFires
  \/ Render
  \/ FlushEffects
  \/ Tick
  \/ ClickWallet
  \/ ClickCancel
  \/ ClickOverlay
  \/ ClickClose

Spec == Init /\ [][Next]_vars

\* The same program with handleStartSpin also called during a spin.
NextRetrigger == Next \/ RetriggerSpin

SpecRetrigger == Init /\ [][NextRetrigger]_vars

\* The program with a submission collaborator that can fail.
NextFailing ==
  \/ ClickSpinButton
  \/ TimerFiresWith(FailingSendDonation)
  \/ Render
  \/ FlushEffects
  \/ Tick
  \/ ClickWallet
  \/ ClickTryAgain
  \/ ClickCancel
  \/ ClickOverlay
  \/ ClickClose

SpecFailing == Init /\ [][NextFailing]_vars

\* The program in a page that can remove Home at any moment.
NextUnmount ==
  \/ (homeMounted /\ (ClickSpinButton \/ TimerFires \/ Render \/ FlushEffects
                        \/ ClickWallet \/ ClickCancel \/ ClickOverlay \/ ClickClose))
  \/ Tick
  \/ Unmount
  \/ UnmountCleanup
  \/ DetachedTimerFires

SpecUnmount == Init /\ [][NextUnmount]_vars

\* The wallet helper on its own, under a caller that calls sendDonation and
\* connectWallet when it likes, a call pending or not.
InitSend == InitHome /\ dial = DialInit /\ send = SendIdle

NextSend ==
  \/ CallSendDonation
  \/ connectWallet
  \/ Tick
  \/ SendDonationResolves
  \/ ConnectWalletResolves

SpecSend == InitSend /\ [][NextSend]_vars

\* CharityDial on its own, under a parent that raises and lowers isSpinning
\* and passes the same onCharitySelected function on every render.
NextDial ==
  \/ DialStart
  \/ DialStop
  \/ selectCharity
  \/ DialTimerFires
  \/ DialRender
  \/ DialFlush
  \/ DialTick

SpecDial == Init /\ [][NextDial]_vars

\* The program on a thread that keeps up: a due timer and React's work run
\* before more time passes.
NextOnTime ==
  \/ ClickSpinButton
  \/ TimerFires
  \/ Render
  \/ FlushEffects
  \/ TickIdle
  \/ ClickWallet
  \/ ClickCancel
  \/ ClickOverlay
  \/ ClickClose

\* The same with a submission collaborator that can fail.
NextFailingOnTime ==
  \/ ClickSpinButton
  \/ TimerFiresWith(FailingSendDonation)
  \/ Render
  \/ FlushEffects
  \/ TickIdle
  \/ ClickWallet
  \/ ClickTryAgain
  \/ ClickCancel
  \/ ClickOverlay
  \/ ClickClose

\* The program with a failing collaborator on a thread that keeps up, with
\* time that keeps passing: a due timer fires, React does the work it has
\* scheduled, and the clock advances while timers are pending.  Nothing is
\* assumed of the user.
SpecRecover ==
  /\ Init /\ [][NextFailingOnTime]_vars
  /\ WF_vars(TimerFiresWith(FailingSendDonation))
  /\ WF_vars(Render)
  /\ WF_vars(FlushEffects)
  /\ WF_vars(TickIdle)

\* The program on a thread that keeps up, with time that keeps passing: a
\* due timer fires, React does the work it has scheduled, and the clock
\* advances while timers are pending.
SpecLive ==
  /\ Init /\ [][NextOnTime]_vars
  /\ WF_vars(TimerFires) /\ WF_vars(Render) /\ WF_vars(FlushEffects) /\ WF_vars(TickIdle)

\* ------------------------------------------------------------ observations

\* A spin cycle has run to its end: the flag went up and is down again.
SpinCycleOver == spins > 0 /\ ~isSpinning

\* Time since the running spin started, read off Home's completion timeout.
HomeTimers == SelectSeq(timers, LAMBDA t : t.kind = "home")
SendTimers(tq) == SelectSeq(tq, LAMBDA t : t.kind = "send")

\* The step is an accepted handleStartSpin: the flag goes up.
SpinStarts == ~isSpinning /\ isSpinning'

\* The step is a dialog dismissal (handleCloseModal).
Dismisses == ~dismissed /\ dismissed'

\* The step resolves a submission whose dialog was dismissed meanwhile.
StaleSendResolves ==
  /\ Due(timers) # {}
  /\ timers[FirstDue(timers)].kind = "send"
  /\ timers[FirstDue(timers)].val = "unmounted"
  /\ Len(SendTimers(timers')) < Len(SendTimers(timers))

\* The pending timers of the two selectors, and of a running spin as a whole.
SelectorTimers(tq) == SelectSeq(tq, LAMBDA t : t.kind \in PickerKinds \cup SpinnerKinds)
SpinTimers(tq) == SelectSeq(tq, LAMBDA t : t.kind # "send")

\* The pending submissions awaited by the dialog instance that is open.
MountedSends(tq) == SelectSeq(tq, LAMBDA t : t.kind = "send" /\ t.val = "mounted")

\* The values of the two fixed tables.
AmountValues == { DONATION_AMOUNTS[i] : i \in 1 .. Len(DONATION_AMOUNTS) }
CharityValues == { CHARITIES[i] : i \in 1 .. Len(CHARITIES) }

\* The values the pending reveal timeouts of a kind will report.
PendingReports(kind) == { timers[i].val : i \in { j \in 1 .. Len(timers) : timers[j].kind = kind } }

\* The step is a click on a wallet button: the dialog starts processing.
ClicksWallet == modal.mounted /\ ~modal.isProcessing /\ modal'.isProcessing

\* The end state of a spin as the round trip expects it.
SpinOutcomeShown ==
  /\ ~isSpinning
  /\ selectedAmount \in AmountValues
  /\ selectedCharity \in CharityValues
  /\ showModal
  /\ modal.mounted

\* The characters Number.prototype.toString(16) produces for 0 .. 15.
HexChars == { HexDigits[i] : i \in 1 .. Len(HexDigits) }

\* The pending reveal timeouts of the two selectors.
RevealTimers(tq) == SelectSeq(tq, LAMBDA t : t.kind \in {"pickerReveal", "spinnerReveal"})

\* Every reveal timeout pending after the step was pending before it, with no
\* more time left than it had: none was armed or re-armed.
NoRevealArmed ==
  \A i \in 1 .. Len(RevealTimers(timers')) :
    \E j \in 1 .. Len(RevealTimers(timers)) :
      /\ RevealTimers(timers')[i].kind = RevealTimers(timers)[j].kind
      /\ RevealTimers(timers')[i].val = RevealTimers(timers)[j].val
      /\ RevealTimers(timers')[i].rem <= RevealTimers(timers)[j].rem

\* The dialog shows the completed view.
ReceiptShown == modal.mounted /\ Truthy(txHash)

\* React has rendered every update and flushed every effect.
ReactIdle == queued = NoUpdates /\ effects = {}

\* Home's isSpinning as of the last setIsSpinning call: the queued value, or
\* the rendered one when none is queued.
SpinningSet == Updated(queued.isSpinning, isSpinning)

\* The delay a timer of a spin is armed with.
ArmedDelay(kind) ==
  CASE kind = "home" -> HomeSpinMs
    [] kind = "pickerInterval" -> PickerIntervalMs
    [] kind = "pickerReveal" -> PickerRevealMs
    [] kind = "spinnerInterval" -> SpinnerIntervalMs
    [] OTHER -> SpinnerRevealMs

\* The picker's drawn charity as of the last setFinalCharity call.
FinalCharitySet == Updated(queued.finalCharity, picker.finalCharity)

\* The queued updates an identifier handed to Home leaves.
QueuedReceipts == { <<hash>> : hash \in HashSamples }

\* ------------------------------------------------------------ claims

\* C1 (as claimed): in every spin cycle CharityPicker calls onCharitySelected
\* exactly once, with the charity it drew when the spin started: never more
\* than once, once by the time the cycle is over, and the charity handed to
\* Home (queued or rendered) is that draw.
C1_CharityReportedOncePerSpin ==
  /\ charityReports <= 1
  /\ SpinCycleOver => charityReports = 1
  /\ charityReports = 1 => Updated(queued.selectedCharity, selectedCharity) = drawnAtStart

\* C2 (as claimed): in every spin cycle DonationSpinner calls onSpinComplete
\* exactly once: never more than once, not before its 3900 ms have passed,
\* and once by the time the cycle is over.
C2_AmountReportedOncePerSpin ==
  /\ amountReports <= 1
  /\ (isSpinning /\ amountReports = 1) =>
        \A i \in 1 .. Len(HomeTimers) : HomeSpinMs - HomeTimers[i].rem >= SpinnerRevealMs
  /\ SpinCycleOver => amountReports = 1

\* C3 (as claimed): the dialog is rendered exactly when both the amount and
\* the charity have been reported for the current spin and the dialog has not
\* been dismissed since.
C3_DialogIffBothReported ==
  ModalRendered(HomeState) <=> (amountReports >= 1 /\ charityReports >= 1 /\ ~dismissed)

\* C4 (as claimed): once the spin is over, an open dialog presents the charity
\* the Charity Selector displays as its final pick for that spin.
C4_DialogShowsPickedCharity ==
  (modal.mounted /\ ~isSpinning) => modal.modalCharity = PickerDisplay

\* C5 (as claimed): the dialog is never open while the spinning flag is set.
C5_NoDialogWhileSpinning == ~(showModal /\ isSpinning)

\* C6 (as claimed): the resolution of a submission whose dialog was dismissed
\* leaves every field of Home as it was and hands React no update of one.
C6_StaleResolutionDiscarded ==
  [][StaleSendResolves => (UNCHANGED homeVars /\ queued' = queued)]_vars

\* C7 (as claimed): dismissing the dialog clears the whole session: the
\* dialog is closed and the amount, the charity and the receipt are absent.
C7_DismissClearsSession ==
  [][Dismisses => (~showModal' /\ selectedAmount' = Null /\ selectedCharity' = Null
                   /\ txHash' = Null)]_vars

\* C8 (as claimed): an accepted handleStartSpin leaves the flag set, the
\* dialog closed, and the amount, the charity and the receipt all cleared.
C8_StartSpinClearsAll ==
  [][SpinStarts => (isSpinning' /\ ~showModal' /\ selectedAmount' = Null
                    /\ selectedCharity' = Null /\ txHash' = Null)]_vars

\* C9: handleStartSpin called while a spin is in progress changes no state
\* of Home or its children and schedules no timer.
C9_RetriggerIsNoOp ==
  [][lastTrigger' = "spinning" => UNCHANGED <<homeVars, childVars, reactVars, timers>>]_vars

\* C9 witness: the handler has just run during a spin, after the amount report.
C9_Witness ==
  /\ lastTrigger = "spinning"
  /\ isSpinning
  /\ selectedAmount # Null
  /\ Len(HomeTimers) = 1

\* C10: no step raises the spinning flag from a state whose dialog is open.
C10_NoSpinWhileDialogOpen == [][showModal => ~SpinStarts]_vars

\* C10 witness: the dialog is open after the spin ended, so the spin button
\* is disabled by showModal alone.
C10_Witness == showModal /\ modal.mounted /\ ~isSpinning /\ SpinButtonDisabled

\* C11: whenever no spin is rendered as running and the effects of that
\* render have been flushed, no timer of a spin is pending (Home's completion
\* timeout, the selectors' intervals and reveal timeouts); and the step that
\* starts a spin leaves exactly the five timers it has armed itself, each
\* with its full delay: every timer of the previous spin has fired or been
\* cancelled, and none can act during the later spin.
C11_NoTimerOutlivesItsSpin ==
  /\ []((~isSpinning /\ effects = {}) => SpinTimers(timers) = <<>>)
  /\ [][SpinStarts =>
          (/\ Len(SpinTimers(timers')) = 5
           /\ \A i \in 1 .. Len(SpinTimers(timers')) :
                SpinTimers(timers')[i].rem = ArmedDelay(SpinTimers(timers')[i].kind))]_vars

\* C11 witness: a later spin has just started; its own five timers are the
\* only spin timers pending.
C11_Witness ==
  /\ lastTrigger = "accepted"
  /\ amountReports = 0
  /\ picker.currentIndex # 0
  /\ Len(SpinTimers(timers)) = 5
  /\ \A i \in 1 .. Len(HomeTimers) : HomeTimers[i].rem = HomeSpinMs

\* C12 (as claimed): once Home is removed during a spin and the cleanups of
\* the removal have run, no timer created by Home, DonationSpinner or
\* CharityPicker remains scheduled; and no step after the removal changes a
\* field of Home or its children or calls a completion callback.
C12_UnmountLeavesNoTimer ==
  /\ []((~homeMounted /\ isSpinning /\ effects = {}) => SpinTimers(timers) = <<>>)
  /\ [][~homeMounted => (/\ UNCHANGED <<homeVars, childVars>>
                         /\ amountReports' = amountReports
                         /\ charityReports' = charityReports)]_vars

\* C13 (as claimed): once the selectors' spinning input is rendered false and
\* the effects of that render are flushed, none of their timers (interval,
\* reveal timeout) is pending; and a selector whose reveal timeout was pending
\* and not yet due when the input was rendered false does not call its
\* completion callback in that cycle.
C13_SpinningOffCancelsSelectors ==
  /\ []((~isSpinning /\ effects = {}) => SelectorTimers(timers) = <<>>)
  /\ [][/\ amountReports' > amountReports => "spinnerReveal" \notin offEarly
        /\ charityReports' > charityReports => "pickerReveal" \notin offEarly]_vars

\* C14: Home's amount is null or one of the fixed amounts, Home's charity is
\* one of the fixed charities, and every value a pending reveal timeout will
\* pass to onSpinComplete / onCharitySelected is from the respective table.
C14_ReportedValuesInDomain ==
  /\ selectedAmount \in AmountValues \cup {Null}
  /\ selectedCharity \in CharityValues
  /\ PendingReports("spinnerReveal") \subseteq AmountValues
  /\ PendingReports("pickerReveal") \subseteq CharityValues

\* C14 witness: an amount has been reported to Home while reveal timeouts of
\* both selectors are pending.
C14_Witness ==
  /\ amountReports = 1
  /\ selectedAmount \in AmountValues
  /\ PendingReports("spinnerReveal") # {}
  /\ PendingReports("pickerReveal") # {}

\* C15 (as claimed): with time passing, every accepted spin trigger leads to a
\* state where the flag is down, an amount and a charity from the fixed
\* tables are selected and the dialog is open (unless the user dismissed the
\* dialog of that spin first).
C15_SpinEndsInDialog == (lastTrigger = "accepted") ~> (SpinOutcomeShown \/ dismissed)

\* C16 (as claimed): the charity the picker displays once the spin is over is
\* the one it drew when the spin started; no later draw replaces it.
C16_SingleDrawPerSpin == SpinCycleOver => PickerDisplay = drawnAtStart

\* C17: the step in which a submission of the open dialog resolves with
\* success hands its identifier to Home (whose txHash was absent) and ends
\* processing, both as queued updates, once; the render of these updates,
\* when the dialog is still open, makes Home's txHash that identifier and
\* leaves the dialog not processing, without error: the completed view.
C17_SuccessShowsReceipt ==
  [][/\ lastTrigger' = "resolved" =>
          (/\ modal.isProcessing
           /\ txHash = Null
           /\ queued'.txHash \in QueuedReceipts
           /\ queued'.isProcessing = <<FALSE>>
           /\ queued'.error = <<>>
           /\ MountedSends(timers') = <<>>)
     /\ (lastTrigger' = "render" /\ modal'.mounted /\ queued.txHash \in QueuedReceipts
           /\ queued.isProcessing = <<FALSE>>) =>
          (/\ txHash' = queued.txHash[1]
           /\ ~modal'.isProcessing
           /\ ~Truthy(modal'.error)
           /\ ReceiptShown'
           /\ ~WalletsOffered')]_vars

\* C17 witness: the resolution of the submission has just been rendered; the
\* dialog shows the receipt.
C17_Witness ==
  /\ lastTrigger = "render"
  /\ modal.mounted
  /\ txHash \in HashSamples
  /\ ~modal.isProcessing
  /\ ~isSpinning

\* C18 (as claimed): the step in which a submission of the open dialog fails
\* ends processing and sets an error to show, calls no Home handler and
\* leaves txHash absent; the render of these updates shows the error with
\* its retry control; while the error is shown nothing starts a submission;
\* the retry control clears the error and shows the wallets.
C18_FailureShowsErrorUntilRetry ==
  [][/\ lastTrigger' = "failed" =>
          (/\ queued'.isProcessing = <<FALSE>>
           /\ queued'.error # <<>>
           /\ Truthy(queued'.error[1])
           /\ queued'.txHash = queued.txHash
           /\ txHash = Null
           /\ UNCHANGED homeVars
           /\ MountedSends(timers') = <<>>)
     /\ (lastTrigger' = "render" /\ modal'.mounted /\ queued.error # <<>>) => ErrorShown'
     /\ ErrorShown => Len(SendTimers(timers')) <= Len(SendTimers(timers))
     /\ lastTrigger' = "retry" => (WalletsOffered' /\ modal'.error = Null)]_vars

\* C19: a step starts a submission exactly when it is a click on a wallet
\* button, offered only while the dialog is not processing, and it starts
\* one; so the open dialog never has two submissions in flight, and it shows
\* the processing view while it has one.
C19_SingleShotSubmission ==
  [][/\ Len(SendTimers(timers')) <= Len(SendTimers(timers)) + 1
     /\ ClicksWallet <=> Len(SendTimers(timers')) = Len(SendTimers(timers)) + 1
     /\ ClicksWallet => WalletsOffered
     /\ Len(MountedSends(timers')) <= 1
     /\ Len(MountedSends(timers')) = 1 => modal'.isProcessing]_vars

\* C19 witness: a submission is in flight; the wallet buttons are not offered.
C19_Witness ==
  /\ modal.mounted
  /\ modal.isProcessing
  /\ Len(MountedSends(timers)) = 1
  /\ ~WalletsOffered

\* C20 (as claimed): the wallets the dialog offers are those of the wallet
\* table, in table order, without 'metamask' when no provider is injected;
\* each is one isWalletAvailable accepts, and isWalletAvailable accepts every
\* id but 'metamask' and accepts 'metamask' exactly with a provider.
C20_OfferedWalletsAreAvailable ==
  /\ WalletsOffered =>
       /\ modal.availableWallets =
            IF hasEthereum THEN wallets ELSE <<"coinbase", "walletconnect", "trustwallet">>
       /\ \A i \in 1 .. Len(modal.availableWallets) :
            isWalletAvailable(modal.availableWallets[i])
  /\ \A i \in 1 .. Len(wallets) :
       isWalletAvailable(wallets[i]) <=> (wallets[i] # "metamask" \/ hasEthereum)

\* The sendDonation calls whose promise has settled.
SettledSends ==
  { i \in 1 .. Len(send.calls) :
      send.calls[i].fn = "sendDonation" /\ send.calls[i].phase = "settled" }

\* C21 (as claimed): every settled sendDonation call has resolved, with success
\* and an identifier that is 64 characters long, all of them hexadecimal.
C21_HashIs64HexChars ==
  \A c \in SettledSends :
    /\ send.calls[c].result.thrown = Null
    /\ send.calls[c].result.success
    /\ Len(send.calls[c].result.txHash) = HashDigits
    /\ \A i \in 1 .. Len(send.calls[c].result.txHash) :
         SubSeq(send.calls[c].result.txHash, i, i) \in HexChars

\* C21 (amended): every settled sendDonation call has resolved, with success
\* and an identifier made of the prefix '0x' and 64 hexadecimal digits after it.
C21_HashIs0xAnd64HexDigits ==
  \A c \in SettledSends :
    /\ send.calls[c].result.thrown = Null
    /\ send.calls[c].result.success
    /\ send.calls[c].result.error = Null
    /\ Len(send.calls[c].result.txHash) = 2 + HashDigits
    /\ SubSeq(send.calls[c].result.txHash, 1, 2) = "0x"
    /\ \A i \in 3 .. Len(send.calls[c].result.txHash) :
         SubSeq(send.calls[c].result.txHash, i, i) \in HexChars

\* C21 witness: the one call made, sendDonation with the last wallet of the
\* table, has settled with an identifier of differing digits.
C21_Witness ==
  /\ Len(send.calls) = 1
  /\ SettledSends = {1}
  /\ send.logged.walletId = "trustwallet"
  /\ SubSeq(send.calls[1].result.txHash, 3, 3) # SubSeq(send.calls[1].result.txHash, 4, 4)

\* The indices DonationSpinner reads its segments with: the landed one for
\* every draw, the displayed one for every reading of Date.now() % 1000.
SegmentIndicesInRange ==
  /\ \A kRotations \in RandomDraws, kSegment \in RandomDraws :
       LandedSegmentIndex(kRotations, kSegment) \in 0 .. (segmentCount - 1)
  /\ \A nowMs \in 0 .. 999 :
       DisplayedSegmentIndex(nowMs) \in 0 .. (segmentCount - 1)

\* C22: the picker's currentIndex is in 0..5 in every state, and the indices
\* the spinner reads its segments with (landed, displayed mid-spin) are in
\* 0..7 for every draw and every reading of the clock (Date.now() % 1000).
C22_TableIndicesInRange ==
  /\ picker.currentIndex \in 0 .. (Len(CHARITIES) - 1)
  /\ SegmentIndicesInRange

\* C22 witness: mid-spin, the picker's index is at the last charity (the next
\* tick wraps it) and the spinner displays a segment.
C22_Witness ==
  /\ isSpinning
  /\ picker.currentIndex = Len(CHARITIES) - 1
  /\ spinner.selectedAmount \in AmountValues

\* C23: with timers firing when due, React doing its scheduled work and time
\* passing, every started spin has its spinning flag cleared; and in every
\* state with the flag down and the dialog open (wallet list, processing,
\* error or completed view) the overlay click is possible and leaves the spin
\* button enabled.  So from every state a state with the spin button enabled
\* is reachable: at once when the flag is down and the dialog closed, by one
\* dismissal when the dialog is open, and after the flag has cleared otherwise.
C23_NoStuckState ==
  /\ isSpinning ~> ~isSpinning
  /\ []((showModal /\ ~isSpinning) => ENABLED (ClickOverlay /\ ~SpinButtonDisabled'))

\* C23 witness: the dialog shows the error view after the spin; the spin
\* button is disabled by the open dialog alone.
C23_Witness == ErrorShown /\ ~isSpinning /\ SpinButtonDisabled /\ timers = <<>>

\* C24 (as claimed): CharityDial does not call onCharitySelected in a step
\* that leaves isSpinning true (other than the timeout of a manual selection),
\* and the call its cleanup makes once isSpinning is false carries the charity
\* at the index displayed when the cleanup runs (the cleanup runs before
\* anything the step renders).
C24_DialReportsOnlyOnStop ==
  [][/\ (dial.isSpinning /\ dial'.isSpinning
          /\ Len(Cancel(timers', {"dialInterval"})) = Len(Cancel(timers, {"dialInterval"}))) =>
          dial'.reports = dial.reports
     /\ (~dial'.isSpinning /\ dial.armed /\ dial'.reports > dial.reports) =>
          dial'.lastReported = CHARITIES[dial.currentIndex + 1]]_vars

\* C25 (as claimed): a step that leaves isSpinning true arms or re-arms no
\* reveal timeout and draws no charity: the picker's drawn charity, as last
\* set, is as it was.
C25_RerenderKeepsSelectorTimers ==
  [][(isSpinning /\ isSpinning') =>
       (NoRevealArmed /\ FinalCharitySet' = FinalCharitySet)]_vars

\* C26 (as claimed): a dialog comes to show the completed view only in the
\* render that follows the resolution of a submission started from that
\* dialog.
C26_ReceiptOnlyFromOwnSubmission ==
  [][(ReceiptShown' /\ ~ReceiptShown) =>
       (lastTrigger = "resolved" /\ lastTrigger' = "render")]_vars

\* C27 (as claimed): once a spin that reported an amount is over, the centre
\* of the spinner displays the amount Home holds.
C27_SpinnerShowsReportedAmount ==
  (SpinCycleOver /\ amountReports = 1) => SpinnerDisplay = selectedAmount

\* C28: isSpinning (as last set) is true exactly when one completion timeout
\* of Home is pending, never more than one is, the flag is set false only in
\* the step in which that timeout, its delay elapsed, fires, and rendered
\* false only after that.
C28_FlagIffOneTimeout ==
  /\ [](Len(HomeTimers) <= 1 /\ (SpinningSet <=> Len(HomeTimers) = 1))
  /\ [](~isSpinning => HomeTimers = <<>>)
  /\ [][(SpinningSet /\ ~SpinningSet') =>
          (/\ Len(HomeTimers) = 1
           /\ HomeTimers[1].rem <= 0
           /\ HomeTimers' = <<>>)]_vars

\* C28 witness: mid-spin, the one completion timeout is due.
C28_Witness == isSpinning /\ Len(HomeTimers) = 1 /\ HomeTimers[1].rem = 0

\* C29: showModal implies an amount is selected and a charity always is, so
\* the dialog is rendered (and mounted) exactly when showModal is true.
C29_ShowModalImpliesAmount ==
  /\ showModal => selectedAmount # Null
  /\ selectedCharity # Null
  /\ ModalRendered(HomeState) <=> showModal
  /\ modal.mounted <=> showModal

\* C29 witness: the dialog is open and processing a submission.
C29_Witness == showModal /\ selectedAmount \in AmountValues /\ modal.isProcessing

\* C30: an outcome with success = true and no or an empty txHash is not a
\* success and stores the result's error text or 'Transaction failed'; the
\* step that settles a submission sets isProcessing false whatever the
\* outcome (and the render of that update shows it), hands Home an
\* identifier only if there is one, and on failure calls no handler.
C30_NoHashIsFailure ==
  [][/\ lastTrigger' \in {"resolved", "failed"} => queued'.isProcessing = <<FALSE>>
     /\ lastTrigger' = "resolved" => (queued'.txHash # <<>> /\ Truthy(queued'.txHash[1]))
     /\ lastTrigger' = "failed" =>
          (/\ UNCHANGED homeVars
           /\ queued'.txHash = queued.txHash
           /\ queued'.error # <<>>
           /\ queued'.error[1] # Null)
     /\ (lastTrigger' = "render" /\ modal'.mounted /\ queued.isProcessing = <<FALSE>>) =>
          ~modal'.isProcessing
     /\ \A o \in FailingSendDonation :
          (o.thrown = Null /\ o.success /\ ~Truthy(o.txHash)) =>
            /\ ~Succeeded(o)
            /\ ErrorMessage(o) = IF Truthy(o.error) THEN o.error ELSE "Transaction failed"]_vars

\* C30 witness: a submission has settled with success = true, an empty
\* txHash and an error text, and the render has followed; the dialog shows
\* that text.
C30_Witness ==
  /\ lastTrigger = "render"
  /\ modal.error = "Rejected by wallet"
  /\ ~modal.isProcessing
  /\ txHash = Null

====
